---------------------------- MODULE Spec2Model ----------------------------
(***************************************************************************)
(* Model of src/bot.py (TENEVERSIYA Sound Design Bot).                     *)
(*                                                                         *)
(* Two state machines share this module:                                   *)
(*   SpecVerify - validate_init_data applied to payloads assembled, signed,*)
(*                reordered and tampered with by its environment;          *)
(*   SpecBot    - main() and the message handlers of the dispatcher.       *)
(*                                                                         *)
(* Strings are sequences of characters; a character is a one-token string. *)
(* HMAC-SHA256 is an abstract injective function of (key, message); its    *)
(* hexdigest is an injective encoding into lowercase hex digits.           *)
(***************************************************************************)
EXTENDS Integers, Sequences, FiniteSets, Bags, TLC

(***************************************************************************)
(* Bounds                                                                  *)
(***************************************************************************)
MaxPairs == 3
MaxMsgs == 2

(***************************************************************************)
(* Characters                                                              *)
(***************************************************************************)
\* U+FFFD, what bytes.decode(errors='replace') yields for an undecodable byte
REPL == "U+FFFD"
\* a lone surrogate code point: str.encode() cannot encode it
SURR == "U+DC80"
NL == "\n"

\* Python's ord() on the characters that occur
ord(c) ==
  CASE c = NL   -> 10
    [] c = " "  -> 32
    [] c = "%"  -> 37
    [] c = "&"  -> 38
    [] c = "+"  -> 43
    [] c = "7"  -> 55
    [] c = "="  -> 61
    [] c = "B"  -> 66
    [] c = "a"  -> 97
    [] c = "b"  -> 98
    [] c = "h"  -> 104
    [] c = "k"  -> 107
    [] c = "s"  -> 115
    [] c = "u"  -> 117
    [] c = "w"  -> 119
    [] c = "x"  -> 120
    [] c = "y"  -> 121
    [] c = "z"  -> 122
    [] c = "{"  -> 123
    [] c = SURR -> 56448
    [] c = REPL -> 65533

\* chr() for the ASCII bytes the percent-escapes of the model can denote
chr(n) ==
  CASE n = 119 -> "w"
    [] n = 122 -> "z"
    [] n = 123 -> "{"

IsAscii(s) == \A i \in 1..Len(s) : ord(s[i]) < 128

\* str.encode(): UTF-8 cannot encode a lone surrogate (UnicodeEncodeError)
CanEncode(s) == \A i \in 1..Len(s) : s[i] # SURR

(***************************************************************************)
(* urllib.parse: unquote, parse_qsl                                        *)
(***************************************************************************)
HexDigits == {"0","1","2","3","4","5","6","7","8","9",
              "a","b","c","d","e","f","A","B","C","D","E","F"}

HexVal(c) ==
  CASE c = "0" -> 0 [] c = "1" -> 1 [] c = "2" -> 2 [] c = "3" -> 3
    [] c = "4" -> 4 [] c = "5" -> 5 [] c = "6" -> 6 [] c = "7" -> 7
    [] c = "8" -> 8 [] c = "9" -> 9
    [] c \in {"a","A"} -> 10 [] c \in {"b","B"} -> 11
    [] c \in {"c","C"} -> 12 [] c \in {"d","D"} -> 13
    [] c \in {"e","E"} -> 14 [] c \in {"f","F"} -> 15

\* bytes([n]).decode('utf-8', errors='replace') for a byte that stands alone
\* or among stray continuation bytes: ASCII decodes to itself, a continuation
\* byte 0x80..0xBF without a lead byte becomes U+FFFD
DecodeByte(n) == IF n < 128 THEN chr(n) ELSE REPL

\* unquote(string, encoding='utf-8', errors='replace'): %XX with two hex
\* digits is decoded, any other '%' is kept literally; it never raises
RECURSIVE unquote(_)
unquote(s) ==
  IF s = <<>> THEN <<>>
  ELSE IF Head(s) = "%" /\ Len(s) >= 3 /\ s[2] \in HexDigits /\ s[3] \in HexDigits
       THEN <<DecodeByte(16 * HexVal(s[2]) + HexVal(s[3]))>>
              \o unquote(SubSeq(s, 4, Len(s)))
       ELSE <<Head(s)>> \o unquote(Tail(s))

\* str.replace('+', ' ')
PlusToSpace(s) == [i \in 1..Len(s) |-> IF s[i] = "+" THEN " " ELSE s[i]]

\* position of the first occurrence of c in s, 0 when absent
RECURSIVE IndexOf(_, _, _)
IndexOf(s, c, i) ==
  IF i > Len(s) THEN 0 ELSE IF s[i] = c THEN i ELSE IndexOf(s, c, i + 1)

\* str.split(sep): the pieces between separators, empty pieces included
RECURSIVE split(_, _)
split(s, sep) ==
  LET i == IndexOf(s, sep, 1)
  IN IF i = 0 THEN <<s>>
     ELSE <<SubSeq(s, 1, i - 1)>> \o split(SubSeq(s, i + 1, Len(s)), sep)

\* one name_value piece -> <<name, value>> decoded (split('=', 1))
DecodePair(nv) ==
  LET i     == IndexOf(nv, "=", 1)
      name  == IF i = 0 THEN nv ELSE SubSeq(nv, 1, i - 1)
      value == IF i = 0 THEN <<>> ELSE SubSeq(nv, i + 1, Len(nv))
  IN <<unquote(PlusToSpace(name)), unquote(PlusToSpace(value))>>

\* the raw (undecoded) value of a piece is non-empty
HasValue(nv) ==
  LET i == IndexOf(nv, "=", 1) IN i # 0 /\ i < Len(nv)

RECURSIVE SelectPairs(_, _)
SelectPairs(pieces, keep_blank_values) ==
  IF pieces = <<>> THEN <<>>
  ELSE LET nv == Head(pieces)
       IN (IF nv # <<>> /\ (HasValue(nv) \/ keep_blank_values)
           THEN <<DecodePair(nv)>> ELSE <<>>)
          \o SelectPairs(Tail(pieces), keep_blank_values)

\* parse_qsl(qs) with its defaults: keep_blank_values=False,
\* strict_parsing=False, separator='&' - pairs with an empty value are dropped
parse_qsl(qs) == SelectPairs(split(qs, "&"), FALSE)

(***************************************************************************)
(* dict(...), sorted(...), '\n'.join(...)                                  *)
(***************************************************************************)
\* a dict is a sequence of <<key, value>> with distinct keys, in insertion order
HasKey(d, k) == \E i \in 1..Len(d) : d[i][1] = k
Get(d, k) == d[CHOOSE i \in 1..Len(d) : d[i][1] = k][2]
SetItem(d, k, v) ==
  IF HasKey(d, k) THEN [i \in 1..Len(d) |-> IF d[i][1] = k THEN <<k, v>> ELSE d[i]]
  ELSE Append(d, <<k, v>>)

\* dict(pairs): a later pair with the same key replaces the earlier value
RECURSIVE DictFrom(_, _)
DictFrom(pairs, d) ==
  IF pairs = <<>> THEN d
  ELSE DictFrom(Tail(pairs), SetItem(d, Head(pairs)[1], Head(pairs)[2]))

dict(pairs) == DictFrom(pairs, <<>>)

\* dict.pop(k): the dict without k
Pop(d, k) == SelectSeq(d, LAMBDA p : p[1] # k)

\* str < str: lexicographic by code point
RECURSIVE StrLess(_, _)
StrLess(a, b) ==
  IF b = <<>> THEN FALSE
  ELSE IF a = <<>> THEN TRUE
  ELSE IF ord(Head(a)) # ord(Head(b)) THEN ord(Head(a)) < ord(Head(b))
  ELSE StrLess(Tail(a), Tail(b))

\* tuple < tuple for (key, value) items
ItemLess(p, q) == StrLess(p[1], q[1]) \/ (p[1] = q[1] /\ StrLess(p[2], q[2]))

RECURSIVE InsertSorted(_, _)
InsertSorted(p, s) ==
  IF s = <<>> THEN <<p>>
  ELSE IF ItemLess(p, Head(s)) THEN <<p>> \o s
  ELSE <<Head(s)>> \o InsertSorted(p, Tail(s))

\* a variant that leaves the items in insertion order
Unsorted(items) == items

\* sorted(items): ascending and stable
RECURSIVE sorted(_)
sorted(items) ==
  IF items = <<>> THEN <<>>
  ELSE InsertSorted(items[Len(items)], sorted(SubSeq(items, 1, Len(items) - 1)))

\* '\n'.join(f"{k}={v}" for k, v in items)
RECURSIVE JoinItems(_)
JoinItems(items) ==
  IF items = <<>> THEN <<>>
  ELSE Head(items)[1] \o <<"=">> \o Head(items)[2]
       \o (IF Len(items) > 1 THEN <<NL>> ELSE <<>>) \o JoinItems(Tail(items))


(***************************************************************************)
(* hmac / hashlib, abstractly                                              *)
(***************************************************************************)
\* the characters a message can hold, in a fixed order (their index is encoded)
MsgChars == <<NL, " ", "%", "&", "+", "7", "=", "B", "a", "b", "h", "k", "s",
              "u", "w", "x", "y", "z", "{", SURR, REPL>>

CharIndex(c) == CHOOSE i \in 1..Len(MsgChars) : MsgChars[i] = c

Digit3 == <<"7", "a", "b">>

\* three lowercase hex digits per character (base 3, indices 1..21 < 26)
CharCode(c) ==
  LET n == CharIndex(c)
  IN <<Digit3[(n \div 9) + 1], Digit3[((n \div 3) % 3) + 1], Digit3[(n % 3) + 1]>>

RECURSIVE MsgCode(_)
MsgCode(m) == IF m = <<>> THEN <<>> ELSE CharCode(Head(m)) \o MsgCode(Tail(m))

\* b"WebAppData"
WebAppData == <<"WebAppData">>

\* hmac.new(key, msg, hashlib.sha256).digest(): an abstract value, injective
\* in (key, msg)
hmac_digest(key, msg) == <<key, msg>>

\* .hexdigest() of HMAC(HMAC("WebAppData", token), msg): lowercase hex, an
\* injective encoding of token and msg ("bbb" encodes no character and ends
\* the token)
hexdigest(mac) ==
  MsgCode(mac[1][2]) \o <<"b", "b", "b">> \o MsgCode(mac[2])

HASH == <<"h", "a", "s", "h">>

(***************************************************************************)
(* validate_init_data                                                      *)
(***************************************************************************)
\* a record of the logger: its level and what it reports
LogRec(level, text) == [level |-> level, text |-> text]

Return(v) == [kind |-> "return", value |-> v, exc |-> "none"]
Raise(e)  == [kind |-> "raise", value |-> FALSE, exc |-> e]

\* str equality that ignores the case of hex digits
Lower(str) == [i \in 1..Len(str) |-> IF str[i] = "B" THEN "b" ELSE str[i]]

\* a variant of the try block whose final comparison ignores case
TryBodyIgnoreCase(init_data_, bot_token_) ==
  LET parsed_data == dict(parse_qsl(init_data_))
  IN IF ~HasKey(parsed_data, HASH) THEN Return(FALSE)
     ELSE LET received_hash     == Get(parsed_data, HASH)
              data_check_string == JoinItems(sorted(Pop(parsed_data, HASH)))
          IN IF ~CanEncode(bot_token_) THEN Raise("UnicodeEncodeError")
             ELSE IF ~CanEncode(data_check_string) THEN Raise("UnicodeEncodeError")
             ELSE LET secret_key      == hmac_digest(WebAppData, bot_token_)
                      calculated_hash == hexdigest(hmac_digest(secret_key, data_check_string))
                  IN IF ~IsAscii(received_hash) THEN Raise("TypeError")
                     ELSE Return(Lower(received_hash) = calculated_hash)

\* the body of the try block, lines 89-112
TryBody(init_data_, bot_token_) ==
  LET parsed_data == dict(parse_qsl(init_data_))
  IN IF ~HasKey(parsed_data, HASH) THEN Return(FALSE)
     ELSE LET received_hash     == Get(parsed_data, HASH)
              data_check_string == JoinItems(sorted(Pop(parsed_data, HASH)))
          IN IF ~CanEncode(bot_token_) THEN Raise("UnicodeEncodeError")
             ELSE IF ~CanEncode(data_check_string) THEN Raise("UnicodeEncodeError")
             ELSE LET secret_key      == hmac_digest(WebAppData, bot_token_)
                      calculated_hash == hexdigest(hmac_digest(secret_key, data_check_string))
                  IN \* hmac.compare_digest(str, str) raises TypeError on non-ASCII
                     IF ~IsAscii(received_hash) THEN Raise("TypeError")
                     ELSE Return(received_hash = calculated_hash)

\* a variant whose except clause lets the exception through
ValidateNoExcept(init_data_, bot_token_) ==
  LET r == TryBody(init_data_, bot_token_)
  IN [kind |-> r.kind, value |-> r.value, exc |-> r.exc, logs |-> EmptyBag]

\* a variant that writes a log record on every path
ValidateAlwaysLogs(init_data_, bot_token_) ==
  LET r == TryBody(init_data_, bot_token_)
  IN [kind |-> "return", value |-> r.value, exc |-> r.exc,
      logs |-> SetToBag({LogRec("ERROR", r.exc)})]

\* validate_init_data: try body; except Exception -> logger.error, return False
validate_init_data(init_data_, bot_token_) ==
  LET r == TryBody(init_data_, bot_token_)
  IN IF r.kind = "raise"
     THEN [kind |-> "return", value |-> FALSE, exc |-> r.exc,
           logs |-> SetToBag({LogRec("ERROR", r.exc)})]
     ELSE [kind |-> "return", value |-> r.value, exc |-> "none", logs |-> EmptyBag]

(***************************************************************************)
(* The signing platform, as the scheme describes it: every received field  *)
(* enters the check-string                                                 *)
(***************************************************************************)
AllPairs(qs) == SelectPairs(split(qs, "&"), TRUE)

KeyLess(p, q) == StrLess(p[1], q[1])

RECURSIVE InsertByKey(_, _)
InsertByKey(p, s) ==
  IF s = <<>> THEN <<p>>
  ELSE IF KeyLess(p, Head(s)) THEN <<p>> \o s
  ELSE <<Head(s)>> \o InsertByKey(p, Tail(s))

RECURSIVE SortByKey(_)
SortByKey(items) ==
  IF items = <<>> THEN <<>>
  ELSE InsertByKey(items[Len(items)], SortByKey(SubSeq(items, 1, Len(items) - 1)))

\* canonical check-string of a payload: all pairs but `hash`, sorted by key
CheckString(qs) ==
  JoinItems(SortByKey(SelectSeq(AllPairs(qs), LAMBDA p : p[1] # HASH)))

Signature(qs, secret) ==
  hexdigest(hmac_digest(hmac_digest(WebAppData, secret), CheckString(qs)))

(***************************************************************************)
(* State                                                                   *)
(***************************************************************************)
VARIABLES
  TOKEN,      \* module global TOKEN (BOT_TOKEN of the environment), line 31
  ADMIN_ID,   \* module global ADMIN_ID, line 32
  log,        \* the records written through `logger`, a bag
  init_data,  \* the payload string handed to validate_init_data
  call,       \* the latest call of validate_init_data: arguments and outcome
  prev,       \* the call before it
  edit,       \* what the environment did to the payload between the two calls
  phase,      \* "build" | "called" | "edited" | "recalled"
  mainPc,     \* where main() is
  health,     \* the aiohttp AppRunner of the health server
  mainExc,    \* main() is unwinding an exception through its finally block
  session,    \* bot.session
  updates,    \* the messages fed to the dispatcher and how their handler ended
  frame,      \* the running handler coroutine of each message, its locals
  outbox      \* per message, the Bot API sends its handler completed, in order

verifyVars == <<init_data, call, prev, edit, phase>>
botVars    == <<ADMIN_ID, mainPc, mainExc, health, session, updates, frame, outbox>>
vars       == <<TOKEN, log, init_data, call, prev, edit, phase,
                ADMIN_ID, mainPc, mainExc, health, session, updates, frame, outbox>>

Msgs == 1..MaxMsgs

NoCall  == [kind |-> "none"]
NoFrame == [pc |-> "idle"]
NoUpdate == [kind |-> "none"]

(***************************************************************************)
(* Inputs of the verifier                                                  *)
(***************************************************************************)
\* the secret the platform signs with
PlatformSecret == <<"s">>
\* the secrets validate_init_data is called with: the platform's, another
\* one, and one that str.encode() rejects
Secrets == {PlatformSecret, <<"k">>, <<SURR>>}

\* key=value pieces the client can put in a payload
Fields ==
  { <<"k", "=", "x">>,                 \* a plain field
    <<"k", "=">>,                      \* a field with an empty value
    <<"u", "=", "%", "7", "b">>,       \* a percent-escape ("{")
    <<"u", "=", "%", "7">> }           \* the same key again, its escape truncated

\* the characters a tampering flip can write
FlipChars == {"&", "=", "%", "B", "x"}

NumPieces(qs) == IF qs = <<>> THEN 0 ELSE Len(split(qs, "&"))

Attach(qs, piece, front) ==
  IF qs = <<>> THEN piece
  ELSE IF front THEN piece \o <<"&">> \o qs ELSE qs \o <<"&">> \o piece

RECURSIVE JoinPieces(_)
JoinPieces(ps) ==
  IF ps = <<>> THEN <<>>
  ELSE IF Len(ps) = 1 THEN ps[1]
  ELSE ps[1] \o <<"&">> \o JoinPieces(Tail(ps))

\* the payload with pieces i and i+1 exchanged
SwapPieces(qs, i) ==
  LET ps == split(qs, "&")
  IN JoinPieces([j \in 1..Len(ps) |->
                   IF j = i THEN ps[i + 1] ELSE IF j = i + 1 THEN ps[i] ELSE ps[j]])

(***************************************************************************)
(* Verifier: environment steps and the call                                *)
(***************************************************************************)
\* the client puts a field in front of the payload
AddField(piece) ==
  /\ phase = "build"
  /\ NumPieces(init_data) < MaxPairs
  /\ init_data' = Attach(init_data, piece, TRUE)
  /\ UNCHANGED <<TOKEN, log, call, prev, edit, phase, botVars>>

\* the platform signs the fields present and appends the signature
Sign ==
  /\ phase = "build"
  /\ NumPieces(init_data) < MaxPairs
  /\ init_data' = Attach(init_data, HASH \o <<"=">> \o Signature(init_data, PlatformSecret), FALSE)
  /\ UNCHANGED <<TOKEN, log, call, prev, edit, phase, botVars>>

\* validate_init_data(init_data, bot_token)
Validate(bot_token) ==
  /\ phase \in {"build", "edited"}
  /\ phase = "edited" => bot_token = call.token
  /\ LET out == validate_init_data(init_data, bot_token)
     IN /\ call' = [kind |-> "call", data |-> init_data, token |-> bot_token, out |-> out]
        /\ log' = log (+) out.logs
  /\ prev' = call
  /\ phase' = IF phase = "build" THEN "called" ELSE "recalled"
  /\ UNCHANGED <<TOKEN, init_data, edit, botVars>>

\* an accepted payload is tampered with: one character is replaced
Flip(i, c) ==
  /\ phase = "called"
  /\ call.out.kind = "return" /\ call.out.value
  /\ i \in 1..Len(init_data)
  /\ init_data[i] # c
  /\ init_data' = [init_data EXCEPT ![i] = c]
  /\ edit' = "flip"
  /\ phase' = "edited"
  /\ UNCHANGED <<TOKEN, log, call, prev, botVars>>

\* two neighbouring pairs of the payload change places
Swap(i) ==
  /\ phase = "called"
  /\ i \in 1..(NumPieces(init_data) - 1)
  /\ init_data' = SwapPieces(init_data, i)
  /\ init_data' # init_data
  /\ edit' = "swap"
  /\ phase' = "edited"
  /\ UNCHANGED <<TOKEN, log, call, prev, botVars>>

BotIdle ==
  /\ mainPc = "start"
  /\ mainExc = FALSE
  /\ health = "none"
  /\ session = "open"
  /\ updates = [m \in Msgs |-> NoUpdate]
  /\ frame = [m \in Msgs |-> NoFrame]
  /\ outbox = [m \in Msgs |-> <<>>]

InitVerify ==
  /\ TOKEN = PlatformSecret
  /\ log = EmptyBag
  /\ init_data = <<>>
  /\ call = NoCall
  /\ prev = NoCall
  /\ edit = "none"
  /\ phase = "build"
  /\ ADMIN_ID = 0
  /\ BotIdle

NextVerify ==
  \/ \E piece \in Fields : AddField(piece)
  \/ Sign
  \/ \E bot_token \in Secrets : Validate(bot_token)
  \/ \E i \in 1..Len(init_data), c \in FlipChars : Flip(i, c)
  \/ \E i \in 1..MaxPairs : Swap(i)

SpecVerify == InitVerify /\ [][NextVerify]_vars

(***************************************************************************)
(* Properties of validate_init_data                                        *)
(***************************************************************************)
Called   == call.kind = "call"
Recalled == phase = "recalled"
Items(d) == {d[i] : i \in 1..Len(d)}
Parsed(qs) == dict(parse_qsl(qs))

\* the check-string the code derives from a payload
CodeCheckString(qs) == JoinItems(sorted(Pop(Parsed(qs), HASH)))

\* the payload has a hash entry equal to the digest the code computes for secret
AcceptedUnder(qs, secret) ==
  LET d  == Parsed(qs)
      cs == JoinItems(sorted(Pop(d, HASH)))
  IN /\ HasKey(d, HASH)
     /\ CanEncode(secret) /\ CanEncode(cs)
     /\ Get(d, HASH) = hexdigest(hmac_digest(hmac_digest(WebAppData, secret), cs))

\* the payload contains a hash pair whose value is the lowercase-hex HMAC of the
\* canonical check-string (all remaining pairs, sorted by key)
ClaimValid(qs, secret) ==
  LET pairs == AllPairs(qs)
      cs    == CheckString(qs)
  IN /\ CanEncode(secret) /\ CanEncode(cs)
     /\ \E i \in 1..Len(pairs) :
           /\ pairs[i][1] = HASH
           /\ pairs[i][2] = hexdigest(hmac_digest(hmac_digest(WebAppData, secret), cs))

\* C1: validate_init_data(payload, secret) returns true if and only if the
\* payload contains a hash pair whose value equals the lowercase-hex HMAC of
\* the canonical check-string of the remaining pairs; false in every other case
C1_TrueIffSigned ==
  Called => (call.out.kind = "return"
             /\ (call.out.value <=> ClaimValid(call.data, call.token)))

\* a '%' that does not start a two-digit escape
HasBadEscape(qs) ==
  \E i \in 1..Len(qs) :
     /\ qs[i] = "%"
     /\ ~(i + 2 <= Len(qs) /\ qs[i + 1] \in HexDigits /\ qs[i + 2] \in HexDigits)

\* C6: a payload that is not validly encoded (a truncated percent-escape) makes
\* validate_init_data return false, whatever hash it carries
C6_BadEncodingRejected ==
  (Called /\ HasBadEscape(call.data)) => (call.out.kind = "return" /\ ~call.out.value)

\* a cause of failure is present in the arguments of a call
FailureCause(qs, secret) ==
  LET d == Parsed(qs)
  IN \/ ~HasKey(d, HASH)
     \/ ~CanEncode(secret)
     \/ ~CanEncode(JoinItems(sorted(Pop(d, HASH))))
     \/ ~IsAscii(Get(d, HASH))
     \/ ~AcceptedUnder(qs, secret)

\* C3: validate_init_data never raises: every call ends by returning true or
\* false, and every failure cause (no hash key, mismatch, an exception in
\* encoding or in the comparison) yields false
C3_NeverRaises ==
  Called => /\ call.out.kind = "return"
            /\ call.out.value \in BOOLEAN
            /\ (call.out.exc # "none" => ~call.out.value)
            /\ (call.out.value => ~FailureCause(call.data, call.token))

C3_Witness ==
  /\ Called
  /\ call.out.exc = "TypeError"
  /\ call.out.kind = "return" /\ ~call.out.value

\* a step that is a call of validate_init_data
IsCallStep == phase' # phase /\ phase' \in {"called", "recalled"}

Accepted(c) == c.kind = "call" /\ c.out.kind = "return" /\ c.out.value

\* the code keeps every pair of the payload: none has an empty value and no
\* key is repeated
KeepsEveryPair(qs) ==
  LET pairs == parse_qsl(qs)
  IN /\ pairs = AllPairs(qs)
     /\ \A i, j \in 1..Len(pairs) : pairs[i][1] = pairs[j][1] => i = j

C5_OrderIndependent ==
  (Recalled /\ edit = "swap") => call.out = prev.out

\* no key occurs in two of the pairs parse_qsl keeps
NoRepeatedKey(qs) ==
  LET pairs == parse_qsl(qs)
  IN \A i, j \in 1..Len(pairs) : pairs[i][1] = pairs[j][1] => i = j

\* C5 amended: two payloads with the same pairs in a different order get the
\* same result provided no key occurs more than once
C5_OrderIndependentDistinctKeys ==
  (Recalled /\ edit = "swap" /\ NoRepeatedKey(prev.data)) => call.out = prev.out

C5_Witness ==
  /\ Recalled /\ edit = "swap" /\ NoRepeatedKey(prev.data)
  /\ Len(Parsed(prev.data)) = 3
  /\ CodeCheckString(call.data) = CodeCheckString(prev.data)
  /\ parse_qsl(call.data)[1][1] # HASH /\ parse_qsl(call.data)[2][1] # HASH
  /\ parse_qsl(call.data)[1] = parse_qsl(prev.data)[2]
  /\ Accepted(prev) /\ Accepted(call)

(***************************************************************************)
(* The bot: main() and the handlers                                        *)
(***************************************************************************)
\* JSON values as json.loads returns them
JNum(n)  == [t |-> "number", n |-> n]
JStr     == [t |-> "string", n |-> 0]
JAbsent  == [t |-> "absent", n |-> 0]

\* message.web_app_data.data, by what json.loads makes of it
WebAppPayloads ==
  { [json |-> "invalid", price |-> JAbsent,    userId |-> JAbsent],   \* not JSON
    [json |-> "array",   price |-> JAbsent,    userId |-> JAbsent],   \* JSON, no object
    [json |-> "object",  price |-> JNum(1500), userId |-> JNum(7)],
    [json |-> "object",  price |-> JStr,       userId |-> JAbsent],   \* "price": "1500"
    [json |-> "object",  price |-> JAbsent,    userId |-> JAbsent] }

NoData == [json |-> "none", price |-> JAbsent, userId |-> JAbsent]

\* the message with id m comes from user m in the private chat m
Update(m, text, data) ==
  [kind |-> "message", text |-> text, web_app_data |-> data,
   chat |-> m, from_user |-> m, status |-> "handling"]

UpdatesOf(m) ==
  {Update(m, t, NoData) : t \in {"/start", "/help", "hello"}}
    \cup {Update(m, "", d) : d \in WebAppPayloads}

\* f"{price:,}": the decimal groups of a number, thousands separated
RECURSIVE Thousands(_)
Thousands(n) == IF n < 1000 THEN <<n>> ELSE Thousands(n \div 1000) \o <<n % 1000>>

NoBody == [user_id |-> 0, price |-> <<>>]

Sent(m, to, what, ok, body) ==
  [m |-> m, to |-> to, kind |-> what, ok |-> ok, body |-> body]

Polling == mainPc = "polling"
Fresh(m) == updates[m] = NoUpdate /\ (m > 1 => updates[m - 1] # NoUpdate)

\* --- main --------------------------------------------------------------
\* lines 327-341: the banner, then the two configuration checks
MainCheckConfig ==
  /\ mainPc = "start"
  /\ IF TOKEN = <<>>
     THEN /\ log' = log (+) SetToBag({LogRec("INFO", "Starting")}) (+) SetToBag({LogRec("ERROR", "BOT_TOKEN is not set")})
          /\ mainPc' = "exit1"
     ELSE IF ADMIN_ID = 0
     THEN /\ log' = log (+) SetToBag({LogRec("INFO", "Starting")}) (+) SetToBag({LogRec("ERROR", "ADMIN_ID is not set")})
          /\ mainPc' = "exit1"
     ELSE /\ log' = log (+) SetToBag({LogRec("INFO", "Starting")})
          /\ mainPc' = "start_health_server"
  /\ UNCHANGED <<TOKEN, verifyVars, ADMIN_ID, mainExc, health, session, updates, frame, outbox>>

\* line 344 and lines 67-78: runner.setup(), site.start(), return runner
StartHealthServer(outcome) ==
  /\ mainPc = "start_health_server"
  /\ \/ /\ outcome = "ok"
        /\ health' = "serving"
        /\ log' = log (+) SetToBag({LogRec("INFO", "Health-check server started")})
        /\ mainPc' = "delete_webhook"
     \/ /\ outcome = "setup_raises"
        /\ health' = "none"
        /\ log' = log
        /\ mainPc' = "raised"
     \/ /\ outcome = "site_start_raises"
        /\ health' = "setup"
        /\ log' = log
        /\ mainPc' = "raised"
  /\ UNCHANGED <<TOKEN, verifyVars, ADMIN_ID, mainExc, session, updates, frame, outbox>>

\* line 347-349: bot.delete_webhook(...), outside the try block
DeleteWebhook(ok) ==
  /\ mainPc = "delete_webhook"
  /\ IF ok THEN /\ log' = log (+) SetToBag({LogRec("INFO", "Bot is running")})
                /\ mainPc' = "polling"
     ELSE /\ log' = log
          /\ mainPc' = "raised"
  /\ UNCHANGED <<TOKEN, verifyVars, ADMIN_ID, mainExc, health, session, updates, frame, outbox>>

\* lines 351-354: dp.start_polling(bot) returns or raises; finally begins
PollingEnds(raises) ==
  /\ Polling
  /\ mainExc' = raises
  /\ log' = log (+) SetToBag({LogRec("INFO", "Shutting down")})
  /\ mainPc' = "cleanup"
  /\ UNCHANGED <<TOKEN, verifyVars, ADMIN_ID, health, session, updates, frame, outbox>>

\* line 355: health_runner.cleanup()
Cleanup(ok) ==
  /\ mainPc = "cleanup"
  /\ IF ok THEN health' = "cleaned" /\ mainPc' = "close"
     ELSE health' = health /\ mainPc' = "raised"
  /\ UNCHANGED <<TOKEN, log, verifyVars, ADMIN_ID, mainExc, session, updates, frame, outbox>>

\* line 356: bot.session.close(); then the pending exception, if any, goes on
CloseSession(ok) ==
  /\ mainPc = "close"
  /\ IF ok THEN /\ session' = "closed"
                /\ mainPc' = IF mainExc THEN "raised" ELSE "returned"
     ELSE session' = session /\ mainPc' = "raised"
  /\ UNCHANGED <<TOKEN, log, verifyVars, ADMIN_ID, mainExc, health, updates, frame, outbox>>

\* --- handlers ----------------------------------------------------------
AnswerFrame(what) == [pc |-> "answer", text |-> what, user_id |-> 0, price |-> <<>>]

\* lines 149-189: cmd_start, up to its message.answer
CmdStart(m, upd) ==
  /\ Polling /\ Fresh(m)
  /\ upd.text = "/start"
  /\ updates' = [updates EXCEPT ![m] = upd]
  /\ log' = log (+) SetToBag({LogRec("INFO", "User started the bot")})
  /\ frame' = [frame EXCEPT ![m] = AnswerFrame("welcome")]
  /\ UNCHANGED <<TOKEN, verifyVars, ADMIN_ID, mainPc, mainExc, health, session, outbox>>

\* lines 192-209: cmd_help
CmdHelp(m, upd) ==
  /\ Polling /\ Fresh(m)
  /\ upd.text # "/start" /\ upd.text = "/help"
  /\ updates' = [updates EXCEPT ![m] = upd]
  /\ frame' = [frame EXCEPT ![m] = AnswerFrame("help")]
  /\ UNCHANGED <<TOKEN, log, verifyVars, ADMIN_ID, mainPc, mainExc, health, session, outbox>>

\* lines 310-318: handle_unknown, the handler without a filter
HandleUnknown(m, upd) ==
  /\ Polling /\ Fresh(m)
  /\ upd.text \notin {"/start", "/help"} /\ upd.web_app_data = NoData
  /\ updates' = [updates EXCEPT ![m] = upd]
  /\ frame' = [frame EXCEPT ![m] = AnswerFrame("unknown_hint")]
  /\ UNCHANGED <<TOKEN, log, verifyVars, ADMIN_ID, mainPc, mainExc, health, session, outbox>>

\* lines 216-266 and the except clauses: handle_webapp_data from json.loads to
\* its first await (the admin send, or the error reply of an except clause)
HandleWebappData(m, upd) ==
  /\ Polling /\ Fresh(m)
  /\ upd.text \notin {"/start", "/help"} /\ upd.web_app_data # NoData
  /\ updates' = [updates EXCEPT ![m] = upd]
  /\ LET data    == upd.web_app_data
         price   == IF data.price.t = "absent" THEN JNum(0) ELSE data.price
         user_id == IF data.userId.t = "absent" THEN upd.from_user ELSE data.userId.n
     IN IF data.json = "invalid"
        THEN \* json.JSONDecodeError
             /\ log' = log (+) SetToBag({LogRec("ERROR", "JSON decode error")})
             /\ frame' = [frame EXCEPT ![m] = AnswerFrame("json_error")]
        ELSE IF data.json # "object" \/ price.t # "number"
        THEN \* data.get raises AttributeError, or {price:,} ValueError
             /\ log' = log (+) SetToBag({LogRec("INFO", "Received order")})
                         (+) SetToBag({LogRec("ERROR", "Error processing order")})
             /\ frame' = [frame EXCEPT ![m] = AnswerFrame("generic_error")]
        ELSE /\ log' = log (+) SetToBag({LogRec("INFO", "Received order")})
             /\ frame' = [frame EXCEPT ![m] =
                  [pc |-> "send_admin", text |-> "admin_report",
                   user_id |-> user_id, price |-> Thousands(price.n)]]
  /\ UNCHANGED <<TOKEN, verifyVars, ADMIN_ID, mainPc, mainExc, health, session, outbox>>

\* a variant in which a failed admin send is ignored and the handler goes on
SendAdminIgnoresFailure(m, ok) ==
  /\ Polling
  /\ frame[m].pc = "send_admin"
  /\ outbox' = [outbox EXCEPT ![m] = Append(@, Sent(m, ADMIN_ID, "admin_report", ok,
                                   [user_id |-> frame[m].user_id, price |-> frame[m].price]))]
  /\ frame' = [frame EXCEPT ![m].pc = "answer_confirm", ![m].text = "confirmation"]
  /\ log' = log
  /\ UNCHANGED <<TOKEN, verifyVars, ADMIN_ID, mainPc, mainExc, health, session, updates>>

\* a variant that addresses the report to the userId of the payload
SendAdminToPayloadUser(m, ok) ==
  /\ Polling
  /\ frame[m].pc = "send_admin"
  /\ outbox' = [outbox EXCEPT ![m] = Append(@, Sent(m, frame[m].user_id, "admin_report", ok,
                                   [user_id |-> frame[m].user_id, price |-> frame[m].price]))]
  /\ IF ok
     THEN /\ frame' = [frame EXCEPT ![m].pc = "answer_confirm", ![m].text = "confirmation"]
          /\ log' = log
     ELSE /\ frame' = [frame EXCEPT ![m] = AnswerFrame("generic_error")]
          /\ log' = log (+) SetToBag({LogRec("ERROR", "Error processing order")})
  /\ UNCHANGED <<TOKEN, verifyVars, ADMIN_ID, mainPc, mainExc, health, session, updates>>

\* lines 268-286: bot.send_message(ADMIN_ID, admin_report) completes; on
\* success the confirmation is formatted and answered, on failure the generic
\* except clause answers
SendAdmin(m, ok) ==
  /\ Polling
  /\ frame[m].pc = "send_admin"
  /\ outbox' = [outbox EXCEPT ![m] = Append(@, Sent(m, ADMIN_ID, "admin_report", ok,
                                   [user_id |-> frame[m].user_id, price |-> frame[m].price]))]
  /\ IF ok
     THEN /\ frame' = [frame EXCEPT ![m].pc = "answer_confirm", ![m].text = "confirmation"]
          /\ log' = log
     ELSE /\ frame' = [frame EXCEPT ![m] = AnswerFrame("generic_error")]
          /\ log' = log (+) SetToBag({LogRec("ERROR", "Error processing order")})
  /\ UNCHANGED <<TOKEN, verifyVars, ADMIN_ID, mainPc, mainExc, health, session, updates>>

\* lines 288-293: message.answer(user_confirmation) completes
AnswerConfirm(m, ok) ==
  /\ Polling
  /\ frame[m].pc = "answer_confirm"
  /\ outbox' = [outbox EXCEPT ![m] = Append(@, Sent(m, updates[m].chat, "confirmation", ok,
                                   [user_id |-> 0, price |-> frame[m].price]))]
  /\ IF ok
     THEN /\ log' = log (+) SetToBag({LogRec("INFO", "Order processed successfully")})
          /\ frame' = [frame EXCEPT ![m] = NoFrame]
          /\ updates' = [updates EXCEPT ![m].status = "returned"]
     ELSE /\ log' = log (+) SetToBag({LogRec("ERROR", "Error processing order")})
          /\ frame' = [frame EXCEPT ![m] = AnswerFrame("generic_error")]
          /\ updates' = updates
  /\ UNCHANGED <<TOKEN, verifyVars, ADMIN_ID, mainPc, mainExc, health, session>>

\* the single message.answer of cmd_start, cmd_help, handle_unknown or of an
\* except clause (lines 185, 209, 297, 304, 314) completes; when it raises, the
\* exception leaves the handler
Answer(m, ok) ==
  /\ Polling
  /\ frame[m].pc = "answer"
  /\ outbox' = [outbox EXCEPT ![m] = Append(@, Sent(m, updates[m].chat, frame[m].text, ok, NoBody))]
  /\ frame' = [frame EXCEPT ![m] = NoFrame]
  /\ updates' = [updates EXCEPT ![m].status = IF ok THEN "returned" ELSE "raised"]
  /\ UNCHANGED <<TOKEN, log, verifyVars, ADMIN_ID, mainPc, mainExc, health, session>>

AdminIds == {0, 900}

InitBot ==
  /\ TOKEN \in {<<>>, PlatformSecret}
  /\ ADMIN_ID \in AdminIds
  /\ log = EmptyBag
  /\ init_data = <<>>
  /\ call = NoCall
  /\ prev = NoCall
  /\ edit = "none"
  /\ phase = "build"
  /\ BotIdle

NextBot ==
  \/ MainCheckConfig
  \/ \E outcome \in {"ok", "setup_raises", "site_start_raises"} : StartHealthServer(outcome)
  \/ \E ok \in BOOLEAN : DeleteWebhook(ok)
  \/ \E raises \in BOOLEAN : PollingEnds(raises)
  \/ \E ok \in BOOLEAN : Cleanup(ok)
  \/ \E ok \in BOOLEAN : CloseSession(ok)
  \/ \E m \in Msgs : \E upd \in UpdatesOf(m) : CmdStart(m, upd)
  \/ \E m \in Msgs : \E upd \in UpdatesOf(m) : CmdHelp(m, upd)
  \/ \E m \in Msgs : \E upd \in UpdatesOf(m) : HandleWebappData(m, upd)
  \/ \E m \in Msgs : \E upd \in UpdatesOf(m) : HandleUnknown(m, upd)
  \/ \E m \in Msgs, ok \in BOOLEAN : SendAdmin(m, ok)
  \/ \E m \in Msgs, ok \in BOOLEAN : AnswerConfirm(m, ok)
  \/ \E m \in Msgs, ok \in BOOLEAN : Answer(m, ok)

SpecBot == InitBot /\ [][NextBot]_vars

(***************************************************************************)
(* Properties of the bot                                                   *)
(***************************************************************************)
Finished(m) == updates[m] # NoUpdate /\ updates[m].status \in {"returned", "raised"}
IsWebApp(m) == updates[m] # NoUpdate /\ updates[m].web_app_data # NoData
ErrorKinds  == {"json_error", "generic_error"}

\* the sends of message m's handler whose kind is in kinds
SendsOf(m, kinds) == {i \in DOMAIN outbox[m] : outbox[m][i].kind \in kinds}
Delivered(m, kinds) == {i \in SendsOf(m, kinds) : outbox[m][i].ok}

\* C2: handle_webapp_data sends no admin report and no confirmation for a
\* web-app message unless validate_init_data was invoked before and returned true
C2_ValidatedBeforeTrust ==
  \A m \in Msgs :
     Delivered(m, {"admin_report", "confirmation"}) # {} => Accepted(call)

NumericOrder(m) ==
  /\ IsWebApp(m)
  /\ updates[m].web_app_data.json = "object"
  /\ updates[m].web_app_data.price.t = "number"

FailedBeforeAdminSend(m) ==
  /\ IsWebApp(m)
  /\ \/ updates[m].web_app_data.json # "object"
     \/ updates[m].web_app_data.price.t = "string"

\* the handling of m failed before the confirmation: as above, or the admin
\* send raised
FailedBeforeConfirm(m) ==
  \/ FailedBeforeAdminSend(m)
  \/ \E i \in SendsOf(m, {"admin_report"}) : ~outbox[m][i].ok

ConfirmAfterReport(m) ==
  \A j \in SendsOf(m, {"confirmation"}) :
     \E i \in Delivered(m, {"admin_report"}) : i < j

\* C9 as stated: the confirmation comes only after a successful admin report of
\* the same handling; after a failure the customer receives exactly one error
\* reply and no confirmation; after a decoding or formatting failure no admin
\* report is sent
C9_ErrorReplyReceived ==
  \A m \in Msgs :
     /\ ConfirmAfterReport(m)
     /\ (Finished(m) /\ FailedBeforeConfirm(m)) =>
           /\ Cardinality(Delivered(m, ErrorKinds)) = 1
           /\ SendsOf(m, {"confirmation"}) = {}
     /\ FailedBeforeAdminSend(m) => SendsOf(m, {"admin_report"}) = {}

\* C9 amended: as above, but after a failure exactly one error reply is
\* attempted; the customer receives it when that send succeeds, and when it
\* fails the exception leaves the handler and the customer receives nothing
C9_ErrorReplyAttempted ==
  \A m \in Msgs :
     /\ ConfirmAfterReport(m)
     /\ (Finished(m) /\ FailedBeforeConfirm(m)) =>
           /\ Cardinality(SendsOf(m, ErrorKinds)) = 1
           /\ SendsOf(m, {"confirmation"}) = {}
           /\ (Cardinality(Delivered(m, ErrorKinds)) = 1 <=> updates[m].status = "returned")
           /\ (Delivered(m, ErrorKinds) = {} <=> updates[m].status = "raised")
     /\ FailedBeforeAdminSend(m) => SendsOf(m, {"admin_report"}) = {}

C9_Witness ==
  \E m \in Msgs :
     /\ Finished(m) /\ NumericOrder(m)
     /\ Len(outbox[m]) = 2
     /\ outbox[m][1].kind = "admin_report" /\ ~outbox[m][1].ok
     /\ outbox[m][2].kind = "generic_error" /\ outbox[m][2].ok

MainEnded == mainPc \in {"returned", "raised", "exit1"}
ServerStarted == health \in {"serving", "cleaned"}

\* C10: main starts nothing when TOKEN is empty or ADMIN_ID is 0, and however
\* main ends after the health server was started, the runner has been cleaned
\* up and the bot session closed
C10_AlwaysCleansUp ==
  /\ (TOKEN = <<>> \/ ADMIN_ID = 0) =>
        (mainPc \in {"start", "exit1"} /\ health = "none" /\ session = "open")
  /\ (MainEnded /\ ServerStarted) => (health = "cleaned" /\ session = "closed")
=============================================================================
